---- MODULE Spec2Model ----
(***************************************************************************)
(* Model of the Windows VM manager (vm-testing/windows_vm_manager.py):     *)
(* the WindowsVMManager class, the libvirt daemon registry and the files   *)
(* under /tmp/vm-storage it works on, and the command dispatch of main().  *)
(* Every invocation of main() and every method call of a client session    *)
(* is one action; the daemon calls, external tools and printed messages of *)
(* the last one are recorded in `last`.                                    *)
(*                                                                         *)
(* Two scripts of the release tooling are modelled beside it, each as a    *)
(* run that advances one step at a time: the release publisher             *)
(* (publish-releases.py) and the asset downloader (download-assets.py).    *)
(***************************************************************************)
EXTENDS Naturals, Sequences, FiniteSets

VARIABLES
    registry,   \* the daemon's domains: name -> [state, xml]
    fs,         \* the files the tool creates or removes, as a set of paths
    mgr,        \* the WindowsVMManager object of a client session, or NoMgr
    last,       \* record of the last invocation (calls, tools, output, result)
    pub,        \* one run of publish-releases.py: position, commands run, exit
    dl          \* one run of download-assets.py: position, files, counters, exit

vars == <<registry, fs, mgr, last, pub, dl>>

\* the variables of the VM manager and those of the two release scripts
vmVars == <<registry, fs, mgr, last>>

scriptVars == <<pub, dl>>

---------------------------------------------------------------------------
(* Bounds and input sets *)

\* number of distinct values random.randint() can contribute to the MAC
NumMacs == 1

Macs == 1..NumMacs

Names == {"test-vm", "other-vm"}

Cwds == {"/tmp/share", "/home/dev"}

\* answers typed at the "Remove disk file ...? (y/N)" prompt; "<EOF>" is a
\* closed standard input
Responses == {"y", "Y", "", "yes", "<EOF>"}

---------------------------------------------------------------------------
(* Paths *)

Path(dir, file) == [dir |-> dir, file |-> file]

None == "None"

NoPath == Path("", <<>>)

vm_dir == "/tmp/vm-storage"

DiskPath(vm_name) == Path(vm_dir, <<vm_name, ".qcow2">>)

VirtioCachePath == Path(vm_dir, <<"virtio-win", ".iso">>)

VirtioSystemPath == Path("/usr/share/virtio-win", <<"virtio-win", ".iso">>)

AutounattendXmlPath == Path(vm_dir, <<"autounattend", ".xml">>)

AutounattendIsoPath == Path(vm_dir, <<"autounattend", ".iso">>)

ArgIsoPath == Path("/tmp", <<"win", ".iso">>)

FoundIsoPath == Path(vm_dir, <<"win11", ".iso">>)

\* str.lower() on the answers of Responses
Lower(s) ==
    CASE s = "Y" -> "y"
      [] s = "N" -> "n"
      [] OTHER -> s

---------------------------------------------------------------------------
(* The virtualization daemon (libvirt), as the tool uses it *)

NoXml == [name |-> "", share |-> "", disk |-> NoPath, cdroms |-> <<>>, mac |-> 0]

Undefined == [state |-> "UNDEFINED", xml |-> NoXml]

\* one daemon call of an invocation and whether it succeeded
Call(op, name, ok) == [op |-> op, name |-> name, ok |-> ok]

\* conn.lookupByName(name) raises libvirtError when no such domain exists
Exists(reg, name) == reg[name].state # "UNDEFINED"

\* domain.isActive()
IsActive(reg, name) == reg[name].state = "RUNNING"

\* conn.defineXML(xml): a persistent, inactive domain
Define(reg, name, xml) ==
    [reg EXCEPT ![name] = [state |-> "DEFINED_STOPPED", xml |-> xml]]

\* domain.create(): start a defined domain
Start(reg, name) == [reg EXCEPT ![name].state = "RUNNING"]

\* domain.shutdown() / domain.destroy(): the domain becomes inactive (a
\* shutdown request is taken as honoured by the guest)
Halt(reg, name) == [reg EXCEPT ![name].state = "DEFINED_STOPPED"]

\* domain.undefine()
Undefine(reg, name) == [reg EXCEPT ![name] = Undefined]

---------------------------------------------------------------------------
(* Resource provisioner *)

\* create_vm_disk without the exists() test: qemu-img runs on every call
create_vm_disk_always(vm_name, files, env) ==
    LET disk_path == DiskPath(vm_name) IN
    IF env.qemuOk
    THEN [fs |-> files \cup {disk_path}, ret |-> disk_path,
          tools |-> <<"qemu-img">>,
          out |-> <<"Creating disk image", "Created disk">>, raised |-> None]
    ELSE [fs |-> files, ret |-> NoPath, tools |-> <<"qemu-img">>,
          out |-> <<"Creating disk image">>, raised |-> "CalledProcessError"]

create_vm_disk_unchecked(vm_name, files, env) ==
    LET disk_path == DiskPath(vm_name) IN
    IF disk_path \in files
    THEN [fs |-> files, ret |-> disk_path, tools |-> <<>>,
          out |-> <<"Disk already exists">>, raised |-> None]
    ELSE IF env.qemuOk
    THEN [fs |-> files \cup {disk_path}, ret |-> disk_path,
          tools |-> <<"qemu-img">>,
          out |-> <<"Creating disk image", "Created disk">>, raised |-> None]
    ELSE [fs |-> files, ret |-> disk_path, tools |-> <<"qemu-img">>,
          out |-> <<"Creating disk image", "Created disk">>, raised |-> None]

\* create_vm_disk: reuse an existing image, else run qemu-img (check=True)
create_vm_disk(vm_name, files, env) ==
    LET disk_path == DiskPath(vm_name) IN
    IF disk_path \in files
    THEN [fs |-> files, ret |-> disk_path, tools |-> <<>>,
          out |-> <<"Disk already exists">>, raised |-> None]
    ELSE IF env.qemuOk
    THEN [fs |-> files \cup {disk_path}, ret |-> disk_path,
          tools |-> <<"qemu-img">>,
          out |-> <<"Creating disk image", "Created disk">>, raised |-> None]
    ELSE [fs |-> files, ret |-> NoPath, tools |-> <<"qemu-img">>,
          out |-> <<"Creating disk image">>, raised |-> "CalledProcessError"]

\* create_unattended_xml: always rewrite autounattend.xml, then run
\* genisoimage (check=True); a missing binary raises FileNotFoundError
create_unattended_xml(files, env) ==
    LET written == files \cup {AutounattendXmlPath} IN
    CASE env.geniso = "ok" ->
           [fs |-> written \cup {AutounattendIsoPath}, ret |-> AutounattendIsoPath,
            tools |-> <<"write autounattend.xml", "genisoimage">>, raised |-> None]
      [] env.geniso = "fails" ->
           [fs |-> written, ret |-> NoPath,
            tools |-> <<"write autounattend.xml", "genisoimage">>,
            raised |-> "CalledProcessError"]
      [] OTHER ->
           [fs |-> written, ret |-> NoPath,
            tools |-> <<"write autounattend.xml", "genisoimage">>,
            raised |-> "FileNotFoundError"]

generate_vm_xml_shares_vm_dir(vm_name, cwd_path, disk_path, iso_path, virtio_path, autounattend_iso, mac) ==
    [name |-> vm_name,
     share |-> vm_dir,
     disk |-> disk_path,
     cdroms |-> IF autounattend_iso # NoPath
                THEN <<iso_path, virtio_path, autounattend_iso>>
                ELSE <<iso_path, virtio_path>>,
     mac |-> mac]

generate_vm_xml_always_unattended(vm_name, cwd_path, disk_path, iso_path, virtio_path, autounattend_iso, mac) ==
    [name |-> vm_name,
     share |-> cwd_path,
     disk |-> disk_path,
     cdroms |-> <<iso_path, virtio_path, AutounattendIsoPath>>,
     mac |-> mac]

\* generate_vm_xml: the descriptor, with the third cdrom only when an
\* unattended image is passed
generate_vm_xml(vm_name, cwd_path, disk_path, iso_path, virtio_path, autounattend_iso, mac) ==
    [name |-> vm_name,
     share |-> cwd_path,
     disk |-> disk_path,
     cdroms |-> IF autounattend_iso # NoPath
                THEN <<iso_path, virtio_path, autounattend_iso>>
                ELSE <<iso_path, virtio_path>>,
     mac |-> mac]

---------------------------------------------------------------------------
(* Lifecycle controller *)

DaemonResult(reg, calls, out, ret, raised) ==
    [reg |-> reg, calls |-> calls, out |-> out, ret |-> ret, raised |-> raised]

\* start_existing without the isActive() test: every found domain is started
start_existing_restart(vm_name, reg, env) ==
    IF ~Exists(reg, vm_name)
    THEN DaemonResult(reg, <<Call("lookupByName", vm_name, FALSE)>>, <<>>,
                      None, "libvirtError")
    ELSE IF env.startOk
    THEN DaemonResult(Start(reg, vm_name),
                      <<Call("lookupByName", vm_name, TRUE), Call("create", vm_name, TRUE)>>,
                      <<"VM already exists", "Starting existing VM">>, vm_name, None)
    ELSE DaemonResult(reg,
                      <<Call("lookupByName", vm_name, TRUE), Call("create", vm_name, FALSE)>>,
                      <<"VM already exists", "Starting existing VM">>, None, "libvirtError")

\* create_and_start_vm, inner try: look the domain up and reuse it.  Any
\* libvirtError raised in here (lookup or start) is caught by the inner except.
start_existing(vm_name, reg, env) ==
    IF ~Exists(reg, vm_name)
    THEN DaemonResult(reg, <<Call("lookupByName", vm_name, FALSE)>>, <<>>,
                      None, "libvirtError")
    ELSE IF IsActive(reg, vm_name)
    THEN DaemonResult(reg, <<Call("lookupByName", vm_name, TRUE)>>,
                      <<"VM already exists", "VM is already running">>, vm_name, None)
    ELSE IF env.startOk
    THEN DaemonResult(Start(reg, vm_name),
                      <<Call("lookupByName", vm_name, TRUE), Call("create", vm_name, TRUE)>>,
                      <<"VM already exists", "Starting existing VM">>, vm_name, None)
    ELSE DaemonResult(reg,
                      <<Call("lookupByName", vm_name, TRUE), Call("create", vm_name, FALSE)>>,
                      <<"VM already exists", "Starting existing VM">>, None, "libvirtError")

\* define_and_start without the create() call: the domain is only defined
define_and_start_unstarted(vm_name, reg, xml, env) ==
    IF Exists(reg, vm_name) \/ ~env.defineOk
    THEN DaemonResult(reg, <<Call("defineXML", vm_name, FALSE)>>, <<>>,
                      None, "libvirtError")
    ELSE DaemonResult(Define(reg, vm_name, xml),
                      <<Call("defineXML", vm_name, TRUE)>>,
                      <<"VM created and started successfully">>, vm_name, None)

\* create_and_start_vm, after the inner except: defineXML then create().
\* The daemon rejects a definition whose name is already taken.
define_and_start(vm_name, reg, xml, env) ==
    IF Exists(reg, vm_name) \/ ~env.defineOk
    THEN DaemonResult(reg, <<Call("defineXML", vm_name, FALSE)>>, <<>>,
                      None, "libvirtError")
    ELSE IF env.startOk
    THEN DaemonResult(Start(Define(reg, vm_name, xml), vm_name),
                      <<Call("defineXML", vm_name, TRUE), Call("create", vm_name, TRUE)>>,
                      <<"VM created and started successfully">>, vm_name, None)
    ELSE DaemonResult(Define(reg, vm_name, xml),
                      <<Call("defineXML", vm_name, TRUE), Call("create", vm_name, FALSE)>>,
                      <<>>, None, "libvirtError")

\* lookup_or_define without the lookup: always defineXML then create()
lookup_or_define_blind(vm_name, reg, xml, env) ==
    LET d == define_and_start(vm_name, reg, xml, env) IN
    IF d.raised = None THEN d
    ELSE DaemonResult(d.reg, d.calls, d.out \o <<"Failed to create VM">>, None, None)

\* create_and_start_vm, the outer try: reuse or define; a libvirtError of
\* the define path is reported and None returned
lookup_or_define(vm_name, reg, xml, env) ==
    LET e == start_existing(vm_name, reg, env) IN
    IF e.raised = None THEN e
    ELSE LET d == define_and_start(vm_name, e.reg, xml, env) IN
         IF d.raised = None
         THEN DaemonResult(d.reg, e.calls \o d.calls, e.out \o d.out, d.ret, None)
         ELSE DaemonResult(d.reg, e.calls \o d.calls,
                           e.out \o d.out \o <<"Failed to create VM">>, None, None)

MethodResult(reg, files, conn, calls, tools, out, ret, raised) ==
    [reg |-> reg, fs |-> files, conn |-> conn, calls |-> calls, tools |-> tools,
     out |-> out, ret |-> ret, raised |-> raised]

create_and_start_vm_lookup_first(vm_name, cwd_path, reg, files, iso_path, virtio_path, create_unattended, mac, env) ==
    IF env.connOk /\ IsActive(reg, vm_name)
    THEN MethodResult(reg, files, TRUE,
                      <<Call("open", None, TRUE), Call("lookupByName", vm_name, TRUE)>>,
                      <<>>, <<"VM already exists", "VM is already running">>,
                      vm_name, None)
    ELSE
    IF ~env.connOk
    THEN MethodResult(reg, files, FALSE, <<Call("open", None, FALSE)>>, <<>>,
                      <<"Failed to connect to libvirt">>, None, None)
    ELSE
    LET d == create_vm_disk(vm_name, files, env) IN
    IF d.raised # None
    THEN MethodResult(reg, d.fs, TRUE, <<Call("open", None, TRUE)>>, d.tools, d.out,
                      None, d.raised)
    ELSE
    LET u == IF create_unattended
             THEN create_unattended_xml(d.fs, env)
             ELSE [fs |-> d.fs, ret |-> NoPath, tools |-> <<>>, raised |-> None] IN
    IF u.raised = "FileNotFoundError"
    THEN MethodResult(reg, u.fs, TRUE, <<Call("open", None, TRUE)>>, d.tools \o u.tools,
                      d.out, None, u.raised)
    ELSE
    LET autounattend_iso == IF u.raised = None THEN u.ret ELSE NoPath
        uout == IF ~create_unattended THEN <<>>
                ELSE IF u.raised = None THEN <<"Created unattended installation ISO">>
                ELSE <<"Failed to create unattended installation">>
        xml == generate_vm_xml(vm_name, cwd_path, d.ret, iso_path, virtio_path,
                               autounattend_iso, mac)
        l == lookup_or_define(vm_name, reg, xml, env)
    IN  MethodResult(l.reg, u.fs, TRUE, <<Call("open", None, TRUE)>> \o l.calls,
                     d.tools \o u.tools, d.out \o uout \o l.out, l.ret, None)

\* create_and_start_vm: connect, provision disk and unattended image,
\* generate the descriptor, then reuse or define the domain
create_and_start_vm(vm_name, cwd_path, reg, files, iso_path, virtio_path, create_unattended, mac, env) ==
    IF ~env.connOk
    THEN MethodResult(reg, files, FALSE, <<Call("open", None, FALSE)>>, <<>>,
                      <<"Failed to connect to libvirt">>, None, None)
    ELSE
    LET d == create_vm_disk(vm_name, files, env) IN
    IF d.raised # None
    THEN MethodResult(reg, d.fs, TRUE, <<Call("open", None, TRUE)>>, d.tools, d.out,
                      None, d.raised)
    ELSE
    LET u == IF create_unattended
             THEN create_unattended_xml(d.fs, env)
             ELSE [fs |-> d.fs, ret |-> NoPath, tools |-> <<>>, raised |-> None] IN
    IF u.raised = "FileNotFoundError"
    THEN MethodResult(reg, u.fs, TRUE, <<Call("open", None, TRUE)>>, d.tools \o u.tools,
                      d.out, None, u.raised)
    ELSE
    LET autounattend_iso == IF u.raised = None THEN u.ret ELSE NoPath
        uout == IF ~create_unattended THEN <<>>
                ELSE IF u.raised = None THEN <<"Created unattended installation ISO">>
                ELSE <<"Failed to create unattended installation">>
        xml == generate_vm_xml(vm_name, cwd_path, d.ret, iso_path, virtio_path,
                               autounattend_iso, mac)
        l == lookup_or_define(vm_name, reg, xml, env)
    IN  MethodResult(l.reg, u.fs, TRUE, <<Call("open", None, TRUE)>> \o l.calls,
                     d.tools \o u.tools, d.out \o uout \o l.out, l.ret, None)

stop_vm_every_domain(conn, vm_name, reg, env) ==
    IF ~conn THEN DaemonResult(reg, <<>>, <<>>, None, None)
    ELSE IF ~Exists(reg, vm_name)
    THEN DaemonResult(reg, <<Call("lookupByName", vm_name, FALSE)>>,
                      <<"Failed to stop VM">>, None, None)
    ELSE IF ~IsActive(reg, vm_name)
    THEN DaemonResult(reg, <<Call("lookupByName", vm_name, TRUE)>>,
                      <<"VM is not running">>, None, None)
    ELSE IF env.shutdownOk
    THEN DaemonResult([n \in DOMAIN reg |->
                          IF IsActive(reg, n) THEN Halt(reg, n)[n] ELSE reg[n]],
                      <<Call("lookupByName", vm_name, TRUE), Call("shutdown", vm_name, TRUE)>>,
                      <<"Shutting down VM">>, None, None)
    ELSE DaemonResult(reg,
                      <<Call("lookupByName", vm_name, TRUE), Call("shutdown", vm_name, FALSE)>>,
                      <<"Failed to stop VM">>, None, None)

\* stop_vm: nothing without a connection; else graceful shutdown if active
stop_vm(conn, vm_name, reg, env) ==
    IF ~conn THEN DaemonResult(reg, <<>>, <<>>, None, None)
    ELSE IF ~Exists(reg, vm_name)
    THEN DaemonResult(reg, <<Call("lookupByName", vm_name, FALSE)>>,
                      <<"Failed to stop VM">>, None, None)
    ELSE IF ~IsActive(reg, vm_name)
    THEN DaemonResult(reg, <<Call("lookupByName", vm_name, TRUE)>>,
                      <<"VM is not running">>, None, None)
    ELSE IF env.shutdownOk
    THEN DaemonResult(Halt(reg, vm_name),
                      <<Call("lookupByName", vm_name, TRUE), Call("shutdown", vm_name, TRUE)>>,
                      <<"Shutting down VM">>, None, None)
    ELSE DaemonResult(reg,
                      <<Call("lookupByName", vm_name, TRUE), Call("shutdown", vm_name, FALSE)>>,
                      <<"Failed to stop VM">>, None, None)

\* remove_disk_prompt that removes unless the answer is "n": Enter deletes
remove_disk_prompt_default_yes(vm_name, files, response) ==
    LET disk_path == DiskPath(vm_name) IN
    IF disk_path \notin files
    THEN [fs |-> files, out |-> <<>>, asked |-> FALSE, raised |-> None]
    ELSE IF response = "<EOF>"
    THEN [fs |-> files, out |-> <<"Remove disk file?">>, asked |-> TRUE,
          raised |-> "EOFError"]
    ELSE IF Lower(response) # "n"
    THEN [fs |-> files \ {disk_path},
          out |-> <<"Remove disk file?", "Disk file removed">>, asked |-> TRUE,
          raised |-> None]
    ELSE [fs |-> files, out |-> <<"Remove disk file?">>, asked |-> TRUE,
          raised |-> None]

\* destroy_vm, lines 550-556: ask before removing the disk image
remove_disk_prompt(vm_name, files, response) ==
    LET disk_path == DiskPath(vm_name) IN
    IF disk_path \notin files
    THEN [fs |-> files, out |-> <<>>, asked |-> FALSE, raised |-> None]
    ELSE IF response = "<EOF>"
    THEN [fs |-> files, out |-> <<"Remove disk file?">>, asked |-> TRUE,
          raised |-> "EOFError"]
    ELSE IF Lower(response) = "y"
    THEN [fs |-> files \ {disk_path},
          out |-> <<"Remove disk file?", "Disk file removed">>, asked |-> TRUE,
          raised |-> None]
    ELSE [fs |-> files, out |-> <<"Remove disk file?">>, asked |-> TRUE,
          raised |-> None]

destroy_vm_prompt_regardless(conn, vm_name, reg, files, response, env) ==
    IF ~conn THEN MethodResult(reg, files, conn, <<>>, <<>>, <<>>, None, None)
    ELSE IF ~Exists(reg, vm_name)
    THEN MethodResult(reg, files, conn, <<Call("lookupByName", vm_name, FALSE)>>, <<>>,
                      <<"Failed to destroy VM">>, None, None)
    ELSE
    LET active == IsActive(reg, vm_name)
        lookup == <<Call("lookupByName", vm_name, TRUE)>>
    IN
    IF active /\ ~env.destroyOk
    THEN MethodResult(reg, files, conn, lookup \o <<Call("destroy", vm_name, FALSE)>>,
                      <<>>, <<"Failed to destroy VM">>, None, None)
    ELSE
    LET reg1 == IF active THEN Halt(reg, vm_name) ELSE reg
        c1 == lookup \o (IF active THEN <<Call("destroy", vm_name, TRUE)>> ELSE <<>>)
        p == remove_disk_prompt(vm_name, files, response)
    IN
    IF ~env.undefineOk
    THEN MethodResult(reg1, p.fs, conn, c1 \o <<Call("undefine", vm_name, FALSE)>>,
                      <<>>, <<"Failed to destroy VM">> \o p.out, None, p.raised)
    ELSE
    MethodResult(Undefine(reg1, vm_name), p.fs, conn,
                 c1 \o <<Call("undefine", vm_name, TRUE)>>, <<>>,
                 <<"VM destroyed">> \o p.out, None, p.raised)

destroy_vm_without_force_stop(conn, vm_name, reg, files, response, env) ==
    IF ~conn THEN MethodResult(reg, files, conn, <<>>, <<>>, <<>>, None, None)
    ELSE IF ~Exists(reg, vm_name)
    THEN MethodResult(reg, files, conn, <<Call("lookupByName", vm_name, FALSE)>>, <<>>,
                      <<"Failed to destroy VM">>, None, None)
    ELSE
    LET lookup == <<Call("lookupByName", vm_name, TRUE)>> IN
    IF ~env.undefineOk
    THEN MethodResult(reg, files, conn, lookup \o <<Call("undefine", vm_name, FALSE)>>,
                      <<>>, <<"Failed to destroy VM">>, None, None)
    ELSE
    LET p == remove_disk_prompt(vm_name, files, response) IN
    MethodResult(Undefine(reg, vm_name), p.fs, conn,
                 lookup \o <<Call("undefine", vm_name, TRUE)>>, <<>>,
                 <<"VM destroyed">> \o p.out, None, p.raised)

\* destroy_vm: nothing without a connection; else force-stop if active,
\* undefine, then the disk prompt
destroy_vm(conn, vm_name, reg, files, response, env) ==
    IF ~conn THEN MethodResult(reg, files, conn, <<>>, <<>>, <<>>, None, None)
    ELSE IF ~Exists(reg, vm_name)
    THEN MethodResult(reg, files, conn, <<Call("lookupByName", vm_name, FALSE)>>, <<>>,
                      <<"Failed to destroy VM">>, None, None)
    ELSE
    LET active == IsActive(reg, vm_name)
        lookup == <<Call("lookupByName", vm_name, TRUE)>>
    IN
    IF active /\ ~env.destroyOk
    THEN MethodResult(reg, files, conn, lookup \o <<Call("destroy", vm_name, FALSE)>>,
                      <<>>, <<"Failed to destroy VM">>, None, None)
    ELSE
    LET reg1 == IF active THEN Halt(reg, vm_name) ELSE reg
        c1 == lookup \o (IF active THEN <<Call("destroy", vm_name, TRUE)>> ELSE <<>>)
    IN
    IF ~env.undefineOk
    THEN MethodResult(reg1, files, conn, c1 \o <<Call("undefine", vm_name, FALSE)>>,
                      <<>>, <<"Failed to destroy VM">>, None, None)
    ELSE
    LET p == remove_disk_prompt(vm_name, files, response) IN
    MethodResult(Undefine(reg1, vm_name), p.fs, conn,
                 c1 \o <<Call("undefine", vm_name, TRUE)>>, <<>>,
                 <<"VM destroyed">> \o p.out, None, p.raised)

---------------------------------------------------------------------------
(* Host conditions an invocation meets: which tools are installed, what    *)
(* the host files are, and which external calls fail                       *)

RequiredCommands == {"qemu-img", "qemu-system-x86_64", "virsh", "remote-viewer"}

Healthy ==
    [missing |-> {}, virt |-> "ok", isoArg |-> "ok", isoFound |-> TRUE,
     sysVirtio |-> FALSE, fetchOk |-> TRUE, connOk |-> TRUE, qemuOk |-> TRUE,
     geniso |-> "ok", defineOk |-> TRUE, startOk |-> TRUE, shutdownOk |-> TRUE,
     destroyOk |-> TRUE, undefineOk |-> TRUE, info |-> "port", viewerOk |-> TRUE]

\* conditions of the create flow on a host that meets the prerequisites
CreateEnvs ==
    {Healthy,
     [Healthy EXCEPT !.connOk = FALSE],
     [Healthy EXCEPT !.qemuOk = FALSE],
     [Healthy EXCEPT !.defineOk = FALSE],
     [Healthy EXCEPT !.startOk = FALSE]}

\* one way a host or a daemon departs from what the create flow expects
Deviation(i, env) ==
    CASE i = 1 -> [env EXCEPT !.missing = {"qemu-img"}]
      [] i = 2 -> [env EXCEPT !.missing = {"remote-viewer"}]
      [] i = 3 -> [env EXCEPT !.virt = "noflags"]
      [] i = 4 -> [env EXCEPT !.virt = "nokvm"]
      [] i = 5 -> [env EXCEPT !.isoArg = "missing"]
      [] i = 6 -> [env EXCEPT !.isoArg = "none"]
      [] i = 7 -> [env EXCEPT !.isoArg = "none", !.isoFound = FALSE]
      [] i = 8 -> [env EXCEPT !.sysVirtio = TRUE]
      [] i = 9 -> [env EXCEPT !.fetchOk = FALSE]
      [] i = 10 -> [env EXCEPT !.connOk = FALSE]
      [] i = 11 -> [env EXCEPT !.qemuOk = FALSE]
      [] i = 12 -> [env EXCEPT !.geniso = "fails"]
      [] i = 13 -> [env EXCEPT !.geniso = "missing"]
      [] i = 14 -> [env EXCEPT !.defineOk = FALSE]
      [] i = 15 -> [env EXCEPT !.startOk = FALSE]
      [] i = 16 -> [env EXCEPT !.info = "noport"]
      [] i = 17 -> [env EXCEPT !.info = "fail"]
      [] OTHER -> [env EXCEPT !.viewerOk = FALSE]

Deviations == 1..18

\* the departure that is another way to succeed: the driver image found in a
\* system path
Alternatives == {8}

\* conditions of the create flow on any host: one departure, or one on top of
\* an alternative resolution
PipelineEnvs ==
    {Healthy}
    \cup {Deviation(i, Healthy) : i \in Deviations}
    \cup {Deviation(j, Deviation(i, Healthy)) : i \in Alternatives, j \in Deviations}

\* what an invocation meets on the host, apart from the daemon's answers:
\* installed tools, CPU and kernel, image files, network, display
Host(env) ==
    [missing |-> env.missing, virt |-> env.virt, isoArg |-> env.isoArg,
     isoFound |-> env.isoFound, sysVirtio |-> env.sysVirtio,
     fetchOk |-> env.fetchOk, qemuOk |-> env.qemuOk, geniso |-> env.geniso,
     info |-> env.info, viewerOk |-> env.viewerOk]

\* conditions of --list
ListEnvs == {Healthy, [Healthy EXCEPT !.connOk = FALSE]}

\* conditions of stop and destroy (neither opens a connection)
ControlEnvs ==
    {Healthy,
     [Healthy EXCEPT !.shutdownOk = FALSE],
     [Healthy EXCEPT !.destroyOk = FALSE],
     [Healthy EXCEPT !.undefineOk = FALSE]}

---------------------------------------------------------------------------
(* Dependency prober, image resolution, session reporter *)

\* check_dependencies: every required command is found by `which`
check_dependencies(env) == env.missing \cap RequiredCommands = {}

check_virtualization_support_skipped(env) == TRUE

\* check_virtualization_support: vmx/svm flag in /proc/cpuinfo and kvm in lsmod
check_virtualization_support(env) == env.virt = "ok"

download_windows_iso_any(env) == FoundIsoPath

\* download_windows_iso: first glob match in the directory, else None
download_windows_iso(env) == IF env.isoFound THEN FoundIsoPath ELSE NoPath

download_virtio_drivers_system_first(files, env) ==
    IF env.sysVirtio
    THEN [fs |-> files, ret |-> VirtioSystemPath, tools |-> <<>>,
          out |-> <<"Using system VirtIO drivers">>]
    ELSE IF VirtioCachePath \in files
    THEN [fs |-> files, ret |-> VirtioCachePath, tools |-> <<>>,
          out |-> <<"VirtIO drivers already exist">>]
    ELSE IF env.fetchOk
    THEN [fs |-> files \cup {VirtioCachePath}, ret |-> VirtioCachePath,
          tools |-> <<"urlretrieve">>,
          out |-> <<"Downloading VirtIO drivers", "Downloaded VirtIO drivers">>]
    ELSE [fs |-> files, ret |-> NoPath, tools |-> <<"urlretrieve">>,
          out |-> <<"Downloading VirtIO drivers", "Failed to download VirtIO drivers">>]

download_virtio_drivers_unchecked(files, env) ==
    IF VirtioCachePath \in files
    THEN [fs |-> files, ret |-> VirtioCachePath, tools |-> <<>>,
          out |-> <<"VirtIO drivers already exist">>]
    ELSE IF env.sysVirtio
    THEN [fs |-> files, ret |-> VirtioSystemPath, tools |-> <<>>,
          out |-> <<"Using system VirtIO drivers">>]
    ELSE IF env.fetchOk
    THEN [fs |-> files \cup {VirtioCachePath}, ret |-> VirtioCachePath,
          tools |-> <<"urlretrieve">>,
          out |-> <<"Downloading VirtIO drivers", "Downloaded VirtIO drivers">>]
    ELSE [fs |-> files, ret |-> VirtioCachePath, tools |-> <<"urlretrieve">>,
          out |-> <<"Downloading VirtIO drivers", "Failed to download VirtIO drivers">>]

\* download_virtio_drivers: cache, then system paths, then network fetch
download_virtio_drivers(files, env) ==
    IF VirtioCachePath \in files
    THEN [fs |-> files, ret |-> VirtioCachePath, tools |-> <<>>,
          out |-> <<"VirtIO drivers already exist">>]
    ELSE IF env.sysVirtio
    THEN [fs |-> files, ret |-> VirtioSystemPath, tools |-> <<>>,
          out |-> <<"Using system VirtIO drivers">>]
    ELSE IF env.fetchOk
    THEN [fs |-> files \cup {VirtioCachePath}, ret |-> VirtioCachePath,
          tools |-> <<"urlretrieve">>,
          out |-> <<"Downloading VirtIO drivers", "Downloaded VirtIO drivers">>]
    ELSE [fs |-> files, ret |-> NoPath, tools |-> <<"urlretrieve">>,
          out |-> <<"Downloading VirtIO drivers", "Failed to download VirtIO drivers">>]

NoInfo == [name |-> None, spice_port |-> None, shared_folder |-> None]

\* get_vm_info: None on any exception, else the port (possibly None)
get_vm_info(domain, cwd_path, env) ==
    CASE env.info = "fail" -> NoInfo
      [] env.info = "noport" ->
           [name |-> domain, spice_port |-> None, shared_folder |-> cwd_path]
      [] OTHER ->
           [name |-> domain, spice_port |-> "5900", shared_folder |-> cwd_path]

\* launch_spice_client: Popen of remote-viewer; every exception is reported
launch_spice_client(port, env) ==
    IF "remote-viewer" \in env.missing
    THEN [tools |-> <<"remote-viewer">>, out |-> <<"remote-viewer not found">>]
    ELSE IF env.viewerOk
    THEN [tools |-> <<"remote-viewer">>, out |-> <<"Launched SPICE client">>]
    ELSE [tools |-> <<"remote-viewer">>, out |-> <<"Failed to launch SPICE client">>]

---------------------------------------------------------------------------
(* main(): the command dispatch.  An uncaught exception ends the process   *)
(* with a traceback and exit status 1; `return` without a value exits 0.   *)

MainResult(reg, files, calls, tools, out, ret, exit, raised, listing) ==
    [reg |-> reg, fs |-> files, calls |-> calls, tools |-> tools, out |-> out,
     ret |-> ret, exit |-> exit, raised |-> raised, listing |-> listing]

\* main, --stop NAME: a fresh manager (conn is None), stop_vm(), return
main_stop(vm_name, reg, files, env) ==
    LET r == stop_vm(FALSE, vm_name, reg, env) IN
    MainResult(r.reg, files, r.calls, <<>>, r.out, None, "0", None, {})

\* main, --destroy NAME: a fresh manager (conn is None), destroy_vm(), return
main_destroy(vm_name, reg, files, response, env) ==
    LET r == destroy_vm(FALSE, vm_name, reg, files, response, env) IN
    MainResult(r.reg, r.fs, r.calls, r.tools, r.out, None,
               IF r.raised = None THEN "0" ELSE "1", r.raised, {})

main_list_every_name(reg, files, env) ==
    IF ~env.connOk
    THEN MainResult(reg, files, <<Call("open", None, FALSE)>>, <<>>,
                    <<"Failed to list VMs">>, None, "0", None, {})
    ELSE MainResult(reg, files,
                    <<Call("open", None, TRUE), Call("listAllDomains", None, TRUE)>>, <<>>,
                    <<"Virtual Machines:">>, None, "0", None,
                    {<<n, IF IsActive(reg, n) THEN "Running" ELSE "Stopped">> :
                        n \in DOMAIN reg})

\* main, --list: open a connection and print every domain with its state
main_list(reg, files, env) ==
    IF ~env.connOk
    THEN MainResult(reg, files, <<Call("open", None, FALSE)>>, <<>>,
                    <<"Failed to list VMs">>, None, "0", None, {})
    ELSE MainResult(reg, files,
                    <<Call("open", None, TRUE), Call("listAllDomains", None, TRUE)>>, <<>>,
                    <<"Virtual Machines:">>, None, "0", None,
                    {<<n, IF IsActive(reg, n) THEN "Running" ELSE "Stopped">> :
                        n \in {m \in DOMAIN reg : Exists(reg, m)}})

report_session_ignoring_no_client(domain, cwd_path, no_client, env) ==
    LET info == get_vm_info(domain, cwd_path, env)
        failed == IF info = NoInfo THEN <<"Failed to get VM info">> ELSE <<>>
        printed == IF info = NoInfo THEN failed ELSE <<"VM CONNECTION INFORMATION">>
    IN
    IF info # NoInfo /\ info.spice_port # None
    THEN LET v == launch_spice_client(info.spice_port, env) IN
         [tools |-> v.tools, out |-> printed \o v.out]
    ELSE [tools |-> <<>>, out |-> printed \o failed]

\* main, lines 669-679: print the connection info, launch the viewer
report_session(domain, cwd_path, no_client, env) ==
    LET info == get_vm_info(domain, cwd_path, env)
        failed == IF info = NoInfo THEN <<"Failed to get VM info">> ELSE <<>>
        printed == IF info = NoInfo THEN failed ELSE <<"VM CONNECTION INFORMATION">>
    IN
    IF no_client THEN [tools |-> <<>>, out |-> printed]
    ELSE IF info # NoInfo /\ info.spice_port # None
    THEN LET v == launch_spice_client(info.spice_port, env) IN
         [tools |-> v.tools, out |-> printed \o v.out]
    ELSE [tools |-> <<>>, out |-> printed \o failed]

\* main, create flow (lines 625-679)
main_create(args, reg, files, mac, env) ==
    IF ~check_dependencies(env)
    THEN MainResult(reg, files, <<>>, <<>>, <<"Missing required dependencies">>,
                    None, "1", None, {})
    ELSE IF ~check_virtualization_support(env)
    THEN MainResult(reg, files, <<>>, <<>>, <<"Virtualization not available">>,
                    None, "1", None, {})
    ELSE
    LET iso_path == IF env.isoArg = "none" THEN download_windows_iso(env)
                    ELSE ArgIsoPath IN
    IF iso_path = NoPath
    THEN MainResult(reg, files, <<>>, <<>>, <<"Windows 11 ISO not found">>,
                    None, "1", None, {})
    ELSE IF env.isoArg = "missing"
    THEN MainResult(reg, files, <<>>, <<>>, <<"Windows ISO not found">>,
                    None, "1", None, {})
    ELSE
    LET v == download_virtio_drivers(files, env) IN
    IF v.ret = NoPath
    THEN MainResult(reg, v.fs, <<>>, v.tools, v.out, None, "1", None, {})
    ELSE
    LET c == create_and_start_vm(args.name, args.cwd, reg, v.fs, iso_path, v.ret,
                                 ~args.no_unattended, mac, env)
    IN
    IF c.raised # None
    THEN MainResult(c.reg, c.fs, c.calls, v.tools \o c.tools, v.out \o c.out,
                    None, "1", c.raised, {})
    ELSE IF c.ret = None
    THEN MainResult(c.reg, c.fs, c.calls, v.tools \o c.tools, v.out \o c.out,
                    None, "1", None, {})
    ELSE
    LET s == report_session(c.ret, args.cwd, args.no_client, env) IN
    MainResult(c.reg, c.fs, c.calls, v.tools \o c.tools \o s.tools,
               v.out \o c.out \o s.out, c.ret, "0", None, {})

---------------------------------------------------------------------------
(* Release publisher (publish-releases.py).  sys.exit(1) and an uncaught   *)
(* exception both end the process with exit status 1; main() returning     *)
(* ends it with 0.                                                         *)

\* one command or check of a run and whether it succeeded
Cmd(cmd, ok) == [cmd |-> cmd, ok |-> ok]

\* the publisher before it is started
PubIdle ==
    [pc |-> "idle", cmds |-> <<>>, exit |-> None, raised |-> None,
     preview |-> FALSE, chart |-> FALSE]

run_step_ignoring_failure(p, cmd, ok, next) ==
    [p EXCEPT !.cmds = Append(@, Cmd(cmd, ok)), !.pc = next]

\* a step whose failure is answered by `return False` / sys.exit(1):
\* `if not run_command(...): return False`, `if not check_release_files()`
run_step(p, cmd, ok, next) ==
    IF ok
    THEN [p EXCEPT !.cmds = Append(@, Cmd(cmd, TRUE)), !.pc = next]
    ELSE [p EXCEPT !.cmds = Append(@, Cmd(cmd, FALSE)), !.pc = "exited",
                   !.exit = "1"]

\* a step that raises an exception nothing catches
raise_step(p, cmd, exc) ==
    [p EXCEPT !.cmds = Append(@, Cmd(cmd, FALSE)), !.pc = "exited",
              !.exit = "1", !.raised = exc]

---------------------------------------------------------------------------
(* Asset downloader (download-assets.py) *)

\* the number of entries of THIRDPARTY_ASSETS
NumAssets == 2

Assets == 1..NumAssets

\* a target file as should_download sees it
FileStates == {"absent", "empty", "content"}

\* what a download attempt meets: the body arrives (possibly empty), the
\* request fails, the archive lacks the member, writing the target breaks off
Outcomes == {"ok", "ok-empty", "urlerror", "notinzip", "truncated"}

\* the downloader before it is started
DlIdle ==
    [pc |-> "idle", i |-> 1, found |-> [a \in Assets |-> "absent"],
     files |-> [a \in Assets |-> "absent"], zip |-> [a \in Assets |-> TRUE],
     log |-> <<>>, downloaded_count |-> 0, skipped_count |-> 0,
     failed_count |-> 0, exit |-> None]

should_download_only_missing(state) == state = "absent"

\* should_download: the file does not exist or has 0 bytes
should_download(state) == state \in {"absent", "empty"}

\* download_asset: True with the file written, or False after any exception;
\* the target is opened for writing only once the body (and for an archive
\* the member) is at hand
download_asset(is_zip, state, outcome) ==
    CASE outcome = "ok" -> [ok |-> TRUE, file |-> "content"]
      [] outcome = "ok-empty" -> [ok |-> TRUE, file |-> "empty"]
      [] outcome = "truncated" -> [ok |-> FALSE, file |-> "empty"]
      [] outcome = "notinzip" ->
           IF is_zip THEN [ok |-> FALSE, file |-> state]
           ELSE [ok |-> TRUE, file |-> "content"]
      [] OTHER -> [ok |-> FALSE, file |-> state]

---------------------------------------------------------------------------
(* State machine *)

NoMgr == [vm_name |-> None, cwd_path |-> None, conn |-> FALSE]

\* os.getcwd() of a client session
Getcwd == "/home/dev"

\* the options --no-unattended and --no-client of a create invocation
Flags(no_unattended, no_client) ==
    [no_unattended |-> no_unattended, no_client |-> no_client]

\* an invocation that takes neither option
NoFlags == Flags(FALSE, FALSE)

\* what the invocation read from standard input: nothing unless it prompted
Answer(out, response) ==
    IF \E i \in DOMAIN out : out[i] = "Remove disk file?" THEN response ELSE None

\* the record of one invocation: the registry and files it started from and
\* what it called, ran, printed and returned
Last(op, name, response, r, path, exit, listing) ==
    [op |-> op, name |-> name, response |-> Answer(r.out, response),
     preReg |-> registry, preFiles |-> fs,
     calls |-> r.calls, tools |-> r.tools, out |-> r.out, ret |-> r.ret,
     path |-> path, raised |-> r.raised, exit |-> exit, listing |-> listing,
     host |-> Host(Healthy), flags |-> NoFlags]

Init ==
    /\ registry = [n \in Names |-> Undefined]
    /\ fs = {}
    /\ mgr = NoMgr
    /\ pub = PubIdle
    /\ dl = DlIdle
    /\ last = [op |-> None, name |-> None, response |-> None,
               preReg |-> [n \in Names |-> Undefined], preFiles |-> {},
               calls |-> <<>>, tools |-> <<>>, out |-> <<>>, ret |-> None,
               path |-> NoPath, raised |-> None, exit |-> None, listing |-> {},
               host |-> Host(Healthy), flags |-> NoFlags]

\* python3 windows_vm_manager.py --stop NAME
MainStop ==
    \E n \in Names, env \in ControlEnvs :
        \E r \in {main_stop(n, registry, fs, env)} :
        /\ registry' = r.reg
        /\ fs' = r.fs
        /\ last' = Last("--stop", n, None, r, NoPath, r.exit, r.listing)
        /\ UNCHANGED mgr
        /\ UNCHANGED scriptVars

\* python3 windows_vm_manager.py --destroy NAME
MainDestroy ==
    \E n \in Names, response \in Responses, env \in ControlEnvs :
        \E r \in {main_destroy(n, registry, fs, response, env)} :
        /\ registry' = r.reg
        /\ fs' = r.fs
        /\ last' = Last("--destroy", n, response, r, NoPath, r.exit, r.listing)
        /\ UNCHANGED mgr
        /\ UNCHANGED scriptVars

\* python3 windows_vm_manager.py --list
MainList ==
    \E env \in ListEnvs :
        \E r \in {main_list(registry, fs, env)} :
        /\ registry' = r.reg
        /\ fs' = r.fs
        /\ last' = Last("--list", None, None, r, NoPath, r.exit, r.listing)
        /\ UNCHANGED mgr
        /\ UNCHANGED scriptVars

\* command lines of the create flow: every option for "test-vm", the
\* defaults (share the working directory, unattended install) for the rest
CreateArgs ==
    [name : {"test-vm"}, cwd : Cwds, no_unattended : BOOLEAN, no_client : BOOLEAN]
    \cup [name : Names \ {"test-vm"}, cwd : {Getcwd}, no_unattended : {FALSE},
          no_client : {TRUE}]

\* python3 windows_vm_manager.py [--name NAME] [--cwd DIR] [--iso PATH] ...
MainCreateWith(Args, Envs) ==
    \E args \in Args, mac \in Macs, env \in Envs :
        \E r \in {main_create(args, registry, fs, mac, env)} :
        /\ registry' = r.reg
        /\ fs' = r.fs
        /\ last' = [Last("create", args.name, None, r, NoPath, r.exit, r.listing)
                        EXCEPT !.host = Host(env),
                               !.flags = Flags(args.no_unattended, args.no_client)]
        /\ UNCHANGED mgr
        /\ UNCHANGED scriptVars

MainCreateIn(Envs) == MainCreateWith(CreateArgs, Envs)

MainCreate == MainCreateIn(CreateEnvs)

\* the VM a client session manages
SessionNames == {"test-vm"}

\* a client session: m = WindowsVMManager(vm_name=NAME)
Construct ==
    \E n \in SessionNames :
        /\ mgr' = [vm_name |-> n, cwd_path |-> Getcwd, conn |-> FALSE]
        /\ last' = Last("__init__", n, None,
                        [calls |-> <<>>, tools |-> <<>>, out |-> <<>>, ret |-> None,
                         raised |-> None], NoPath, None, {})
        /\ UNCHANGED <<registry, fs>>
        /\ UNCHANGED scriptVars

\* a client session: m.create_vm_disk()
CallCreateDisk ==
    /\ mgr # NoMgr
    /\ \E env \in {Healthy, [Healthy EXCEPT !.qemuOk = FALSE]} :
        \E r \in {create_vm_disk(mgr.vm_name, fs, env)} :
        /\ fs' = r.fs
        /\ last' = [Last("create_vm_disk", mgr.vm_name, None,
                         [calls |-> <<>>, tools |-> r.tools, out |-> r.out,
                          ret |-> None, raised |-> r.raised], r.ret, None, {})
                        EXCEPT !.host = Host(env)]
        /\ UNCHANGED <<registry, mgr>>
        /\ UNCHANGED scriptVars

\* a client session: m.create_and_start_vm(iso, virtio, create_unattended)
CallCreateAndStart ==
    /\ mgr # NoMgr
    /\ \E create_unattended \in BOOLEAN, mac \in Macs, env \in CreateEnvs :
        \E r \in {create_and_start_vm(mgr.vm_name, mgr.cwd_path, registry, fs,
                                     ArgIsoPath, VirtioCachePath,
                                     create_unattended, mac, env)} :
        /\ registry' = r.reg
        /\ fs' = r.fs
        /\ mgr' = [mgr EXCEPT !.conn = mgr.conn \/ r.conn]
        /\ last' = [Last("create_and_start_vm", mgr.vm_name, None, r, NoPath, None, {})
                        EXCEPT !.host = Host(env),
                               !.flags = Flags(~create_unattended, FALSE)]
        /\ UNCHANGED scriptVars

\* a client session: m.stop_vm()
CallStop ==
    /\ mgr # NoMgr
    /\ \E env \in ControlEnvs :
        \E r \in {stop_vm(mgr.conn, mgr.vm_name, registry, env)} :
        /\ registry' = r.reg
        /\ last' = Last("stop_vm", mgr.vm_name, None,
                        [calls |-> r.calls, tools |-> <<>>, out |-> r.out,
                         ret |-> r.ret, raised |-> r.raised], NoPath, None, {})
        /\ UNCHANGED <<fs, mgr>>
        /\ UNCHANGED scriptVars

\* a client session: m.destroy_vm()
CallDestroy ==
    /\ mgr # NoMgr
    /\ \E response \in Responses, env \in ControlEnvs :
        \E r \in {destroy_vm(mgr.conn, mgr.vm_name, registry, fs, response, env)} :
        /\ registry' = r.reg
        /\ fs' = r.fs
        /\ last' = Last("destroy_vm", mgr.vm_name, response, r, NoPath, None, {})
        /\ UNCHANGED mgr
        /\ UNCHANGED scriptVars

Next ==
    \/ MainStop
    \/ MainDestroy
    \/ MainList
    \/ MainCreate
    \/ Construct
    \/ CallCreateDisk
    \/ CallCreateAndStart
    \/ CallStop
    \/ CallDestroy

Spec == Init /\ [][Next]_vars

\* command lines of the create flow for one name and one shared directory
PipelineArgs ==
    [name : {"test-vm"}, cwd : {"/tmp/share"}, no_unattended : BOOLEAN,
     no_client : BOOLEAN]

\* the create flow on any host
MainCreateAnywhere == MainCreateWith(PipelineArgs, PipelineEnvs)

\* hosts as driver-image resolution sees them: a system copy or none, the
\* network reachable or not
ResolutionEnvs ==
    {[Healthy EXCEPT !.sysVirtio = sys, !.fetchOk = net] : sys, net \in BOOLEAN}

\* WindowsVMManager().download_virtio_drivers()
CallDownloadVirtio ==
    \E env \in ResolutionEnvs :
        \E r \in {download_virtio_drivers(fs, env)} :
        /\ fs' = r.fs
        /\ last' = [Last("download_virtio_drivers", None, None,
                         [calls |-> <<>>, tools |-> r.tools, out |-> r.out,
                          ret |-> None, raised |-> None], r.ret, None, {})
                        EXCEPT !.host = Host(env)]
        /\ UNCHANGED <<registry, mgr>>
        /\ UNCHANGED scriptVars

\* WindowsVMManager().download_windows_iso(): it globs the directory and
\* prints; it runs no tool and writes no file
CallDownloadWindowsIso ==
    \E env \in {Healthy, [Healthy EXCEPT !.isoFound = FALSE]} :
        /\ last' = [Last("download_windows_iso", None, None,
                         [calls |-> <<>>, tools |-> <<>>,
                          out |-> IF env.isoFound
                                  THEN <<"Found existing Windows 11 ISO">>
                                  ELSE <<"Windows 11 ISO not found">>,
                          ret |-> None, raised |-> None],
                         download_windows_iso(env), None, {})
                        EXCEPT !.host = Host(env)]
        /\ UNCHANGED <<registry, fs, mgr>>
        /\ UNCHANGED scriptVars

NextCreate ==
    \/ MainCreateAnywhere
    \/ CallDownloadVirtio
    \/ CallDownloadWindowsIso

\* the create flow alone, invoked again and again on hosts of every kind
SpecCreate == Init /\ [][NextCreate]_vars

---------------------------------------------------------------------------
(* One run of publish-releases.py, step by step *)

\* main, lines 408-417: the solution file, then the optional build request
PubStart ==
    /\ pub.pc = "idle"
    /\ \E sln \in BOOLEAN, build \in BOOLEAN, preview \in BOOLEAN :
        pub' = [run_step(pub, "FullCrisis3.sln", sln,
                         IF build THEN "build" ELSE "check")
                    EXCEPT !.preview = sln /\ preview]
    /\ UNCHANGED <<vmVars, dl>>

\* main, line 415: subprocess.run([uv, run, build.py, ...], check=True)
PubBuild ==
    /\ pub.pc = "build"
    /\ \E ok \in BOOLEAN :
        pub' = IF ok THEN run_step(pub, "uv run build.py", TRUE, "check")
               ELSE raise_step(pub, "uv run build.py", "CalledProcessError")
    /\ UNCHANGED <<vmVars, dl>>

\* main, lines 419-421: check_release_files()
PubCheckReleaseFiles ==
    /\ pub.pc = "check"
    /\ \E found \in {"ok", "nodir", "missing"} :
        pub' = run_step(pub, "check_release_files", found = "ok", "git init")
    /\ UNCHANGED <<vmVars, dl>>

\* create_pages_branch, lines 305-307
PubGitInit ==
    /\ pub.pc = "git init"
    /\ \E ok \in BOOLEAN : pub' = run_step(pub, "git init", ok, "copy")
    /\ UNCHANGED <<vmVars, dl>>

\* create_pages_branch, lines 313-337: shutil.copy2 of the executables,
\* icons and fonts, then the CNAME file
PubCopyFiles ==
    /\ pub.pc = "copy"
    /\ \E ok \in BOOLEAN :
        pub' = IF ok THEN run_step(pub, "copy", TRUE, "chart")
               ELSE raise_step(pub, "copy", "FileNotFoundError")
    /\ UNCHANGED <<vmVars, dl>>

\* create_pages_branch, lines 339-358: the statistics chart (a failure is a
\* warning) and index.html with or without it
PubChart ==
    /\ pub.pc = "chart"
    /\ \E chart \in {"ok", "fails", "nofile"} :
        pub' = [pub EXCEPT !.cmds = Append(@, Cmd("uv run project-stats.py",
                                                  chart = "ok")),
                           !.chart = (chart = "ok"),
                           !.pc = "preview"]
    /\ UNCHANGED <<vmVars, dl>>

\* create_pages_branch, lines 362-367: with `preview` open the page and wait
\* for Enter twice
PubPreview ==
    /\ pub.pc = "preview"
    /\ \E answered \in (IF pub.preview THEN BOOLEAN ELSE {TRUE}) :
        pub' = IF ~pub.preview THEN [pub EXCEPT !.pc = "git add"]
               ELSE IF answered THEN run_step(pub, "preview", TRUE, "git add")
               ELSE raise_step(pub, "preview", "EOFError")
    /\ UNCHANGED <<vmVars, dl>>

\* create_pages_branch, lines 370-371
PubGitAdd ==
    /\ pub.pc = "git add"
    /\ \E ok \in BOOLEAN : pub' = run_step(pub, "git add", ok, "git commit")
    /\ UNCHANGED <<vmVars, dl>>

\* create_pages_branch, lines 373-377
PubGitCommit ==
    /\ pub.pc = "git commit"
    /\ \E ok \in BOOLEAN :
        pub' = run_step(pub, "git commit", ok, "git remote get-url")
    /\ UNCHANGED <<vmVars, dl>>

\* push_to_pages_branch, lines 383-390
PubGetUrl ==
    /\ pub.pc = "git remote get-url"
    /\ \E ok \in BOOLEAN :
        pub' = run_step(pub, "git remote get-url", ok, "git remote add")
    /\ UNCHANGED <<vmVars, dl>>

\* push_to_pages_branch, lines 392-394
PubRemoteAdd ==
    /\ pub.pc = "git remote add"
    /\ \E ok \in BOOLEAN :
        pub' = run_step(pub, "git remote add", ok, "git push -f")
    /\ UNCHANGED <<vmVars, dl>>

\* push_to_pages_branch, lines 396-401, and the end of main
PubPush ==
    /\ pub.pc = "git push -f"
    /\ \E ok \in BOOLEAN :
        pub' = IF ok
               THEN [run_step(pub, "git push -f", TRUE, "exited") EXCEPT !.exit = "0"]
               ELSE run_step(pub, "git push -f", FALSE, "exited")
    /\ UNCHANGED <<vmVars, dl>>

NextPublish ==
    \/ PubStart
    \/ PubBuild
    \/ PubCheckReleaseFiles
    \/ PubGitInit
    \/ PubCopyFiles
    \/ PubChart
    \/ PubPreview
    \/ PubGitAdd
    \/ PubGitCommit
    \/ PubGetUrl
    \/ PubRemoteAdd
    \/ PubPush

\* one run of the release publisher
SpecPublish == Init /\ [][NextPublish]_vars

---------------------------------------------------------------------------
(* One run of download-assets.py: the loop of main, one asset per step *)

\* main, lines 94-96: the counters start at 0; the target files and the
\* kinds of the configured assets are as the run finds them
DlStart ==
    /\ dl.pc = "idle"
    /\ \E files \in [Assets -> FileStates], zip \in [Assets -> BOOLEAN] :
        dl' = [dl EXCEPT !.pc = "loop", !.found = files, !.files = files,
                         !.zip = zip]
    /\ UNCHANGED <<vmVars, pub>>

\* main, lines 98-111: one iteration of the loop
DlProcessAsset ==
    /\ dl.pc = "loop"
    /\ dl.i <= NumAssets
    /\ IF should_download(dl.files[dl.i])
       THEN \E outcome \in Outcomes :
            \E r \in {download_asset(dl.zip[dl.i], dl.files[dl.i], outcome)} :
                dl' = [dl EXCEPT
                        !.files[dl.i] = r.file,
                        !.log = Append(@, [asset |-> dl.i, attempted |-> TRUE,
                                           class |-> IF r.ok THEN "downloaded"
                                                     ELSE "failed"]),
                        !.downloaded_count = IF r.ok THEN @ + 1 ELSE @,
                        !.failed_count = IF r.ok THEN @ ELSE @ + 1,
                        !.i = @ + 1]
       ELSE dl' = [dl EXCEPT
                        !.log = Append(@, [asset |-> dl.i, attempted |-> FALSE,
                                           class |-> "skipped"]),
                        !.skipped_count = @ + 1,
                        !.i = @ + 1]
    /\ UNCHANGED <<vmVars, pub>>

\* main, lines 113-117: the summary, then exit(1) if anything failed
DlFinish ==
    /\ dl.pc = "loop"
    /\ dl.i > NumAssets
    /\ dl' = [dl EXCEPT !.pc = "done",
                        !.exit = IF dl.failed_count > 0 THEN "1" ELSE "0"]
    /\ UNCHANGED <<vmVars, pub>>

NextAssets ==
    \/ DlStart
    \/ DlProcessAsset
    \/ DlFinish

\* one run of the asset downloader
SpecAssets == Init /\ [][NextAssets]_vars

---------------------------------------------------------------------------
(* Reading the record of the last invocation *)

CreateOps == {"create", "create_and_start_vm"}

DestroyOps == {"--destroy", "destroy_vm"}

\* the named domain as the invocation found it
LastPre == last.preReg[last.name]

\* the daemon calls of the last invocation with the given operation
CallsOf(op) == {i \in DOMAIN last.calls : last.calls[i].op = op}

HasCall(op) == CallsOf(op) # {}

Succeeded(op) == \E i \in CallsOf(op) : last.calls[i].ok

Printed(msg) == \E i \in DOMAIN last.out : last.out[i] = msg

Ran(tool) == \E i \in DOMAIN last.tools : last.tools[i] = tool

\* the invocation connected to the daemon and raised no exception, so
\* create_and_start_vm got as far as its domain lookup
Reached == Succeeded("open") /\ last.raised = None

\* the operations of the daemon calls, in the order they were issued
CallOps == [i \in DOMAIN last.calls |-> last.calls[i].op]

---------------------------------------------------------------------------
(* Claims *)

\* C1: invoking --stop NAME while the domain NAME is RUNNING issues a
\* graceful shutdown request for it and moves it to DEFINED_STOPPED.
C1_StopCommandShutsDown ==
    (last.op = "--stop" /\ LastPre.state = "RUNNING")
        => /\ HasCall("shutdown")
           /\ registry[last.name].state = "DEFINED_STOPPED"

\* C2: invoking --destroy NAME on a domain that is RUNNING or
\* DEFINED_STOPPED leaves it UNDEFINED (force-stopped first if running).
C2_DestroyCommandUndefines ==
    (last.op = "--destroy" /\ LastPre.state \in {"RUNNING", "DEFINED_STOPPED"})
        => /\ registry[last.name].state = "UNDEFINED"
           /\ (LastPre.state = "RUNNING" => CallOps = <<"lookupByName", "destroy", "undefine">>)

\* C3: create_and_start_vm on a name whose domain is RUNNING issues neither
\* a define nor a start call and leaves the registry as it was; once
\* connected it only looks the domain up and returns the existing handle.
C3_CreateOnRunningIsNoOp ==
    (last.op \in CreateOps /\ LastPre.state = "RUNNING")
        => /\ ~HasCall("defineXML")
           /\ ~HasCall("create")
           /\ registry = last.preReg
           /\ Reached => /\ CallOps = <<"open", "lookupByName">>
                         /\ last.ret = last.name

C3_Witness ==
    /\ last.op = "create"
    /\ LastPre.state = "RUNNING"
    /\ CallOps = <<"open", "lookupByName">>
    /\ last.ret = last.name
    /\ registry[last.name].state = "RUNNING"

\* C4: over any sequence of create invocations defineXML is issued for a
\* name only when no domain of that name exists in the registry, and an
\* existing domain is started only if it is not active.
C4_DefineOnlyWhenAbsent ==
    last.op \in CreateOps =>
        \A i \in DOMAIN last.calls :
            /\ last.calls[i].op = "defineXML" => ~Exists(last.preReg, last.calls[i].name)
            /\ last.calls[i].op = "create" => ~IsActive(last.preReg, last.calls[i].name)

\* C5: create_and_start_vm on an UNDEFINED name defines the domain from the
\* generated descriptor and then starts it, in that order: the start call
\* is issued only after a successful define, a defined but unstarted domain
\* is DEFINED_STOPPED, and when both calls succeed the domain is RUNNING
\* and its handle is returned.
C5_CreateOnUndefinedDefinesThenStarts ==
    (last.op \in CreateOps /\ LastPre.state = "UNDEFINED" /\ Reached)
        => /\ CallOps = IF Succeeded("defineXML")
                        THEN <<"open", "lookupByName", "defineXML", "create">>
                        ELSE <<"open", "lookupByName", "defineXML">>
           /\ Succeeded("defineXML") /\ ~Succeeded("create")
                => registry[last.name].state = "DEFINED_STOPPED"
           /\ Succeeded("defineXML") /\ Succeeded("create")
                => /\ registry[last.name].state = "RUNNING"
                   /\ registry[last.name].xml.name = last.name
                   /\ registry[last.name].xml.disk = DiskPath(last.name)
                   /\ last.ret = last.name

C5_Witness ==
    /\ last.op = "create"
    /\ LastPre.state = "UNDEFINED"
    /\ CallOps = <<"open", "lookupByName", "defineXML", "create">>
    /\ registry[last.name].state = "RUNNING"
    /\ last.ret = last.name

C7_DiskRemovedOnlyOnConfirmedDestroy ==
    /\ \A n \in Names :
          (DiskPath(n) \in last.preFiles /\ DiskPath(n) \notin fs)
              => /\ last.op \in DestroyOps
                 /\ last.name = n
                 /\ last.response # None
                 /\ Lower(last.response) = "y"
    /\ (last.op \in DestroyOps /\ last.response # None)
          => (DiskPath(last.name) \notin fs <=> last.response \in {"y", "Y"})

C7_Witness ==
    /\ last.op = "destroy_vm"
    /\ last.response = "Y"
    /\ DiskPath(last.name) \in last.preFiles
    /\ DiskPath(last.name) \notin fs

\* C8: create_vm_disk on a name whose image exists returns the path of that
\* image without running qemu-img and without touching the files; a create
\* invocation that finds the image reuses it.
C8_DiskCreationIdempotent ==
    /\ (last.op = "create_vm_disk" /\ DiskPath(last.name) \in last.preFiles)
          => /\ last.path = DiskPath(last.name)
             /\ ~Ran("qemu-img")
             /\ fs = last.preFiles
             /\ last.raised = None
    /\ (last.op = "create_vm_disk" /\ last.raised = None)
          => last.path = DiskPath(last.name) /\ last.path \in fs
    /\ (last.op \in CreateOps /\ DiskPath(last.name) \in last.preFiles)
          => ~Ran("qemu-img") /\ DiskPath(last.name) \in fs

C8_Witness ==
    /\ last.op = "create_vm_disk"
    /\ DiskPath(last.name) \in last.preFiles
    /\ last.path = DiskPath(last.name)
    /\ Printed("Disk already exists")

\* C9: invoking --stop NAME on a domain that is DEFINED_STOPPED prints a
\* "not running" message, issues no shutdown request, leaves the domain
\* DEFINED_STOPPED and returns without error.
C9_StopCommandOnStoppedReports ==
    (last.op = "--stop" /\ LastPre.state = "DEFINED_STOPPED")
        => /\ Printed("VM is not running")
           /\ ~HasCall("shutdown")
           /\ registry = last.preReg
           /\ last.raised = None

\* C10: invoking --destroy NAME when no domain NAME exists reports an error
\* message and terminates normally, leaving the registry unchanged.
C10_DestroyCommandOnMissingReports ==
    (last.op = "--destroy" /\ LastPre.state = "UNDEFINED")
        => /\ Printed("Failed to destroy VM")
           /\ last.raised = None
           /\ last.exit = "0"
           /\ registry = last.preReg

\* the preconditions of an invocation: required tools, virtualization,
\* installer image, driver image, daemon connection
ToolMissing == last.host.missing \cap RequiredCommands # {}

NoVirtualization == last.host.virt # "ok"

InstallerImageMissing ==
    \/ last.host.isoArg = "missing"
    \/ last.host.isoArg = "none" /\ ~last.host.isoFound

DriverResolutionFails ==
    /\ VirtioCachePath \notin last.preFiles
    /\ ~last.host.sysVirtio
    /\ ~last.host.fetchOk

ConnectionFailed == \E i \in CallsOf("open") : ~last.calls[i].ok

UnmetPrecondition ==
    \/ last.op = "create"
        /\ (ToolMissing \/ NoVirtualization \/ InstallerImageMissing
                \/ DriverResolutionFails)
    \/ ConnectionFailed

\* C11: an invocation exits with code 1 whenever a required tool is missing,
\* virtualization is unsupported, the installer image is missing, the driver
\* image cannot be resolved, or the connection to the daemon fails.
C11_UnmetPreconditionExitsOne ==
    (last.exit # None /\ UnmetPrecondition) => last.exit = "1"

\* C11, the create flow alone
C11_CreateUnmetPreconditionExitsOne ==
    (last.op = "create" /\ UnmetPrecondition) => last.exit = "1"

\* the invocation left the files and the domains as it found them
NothingChanged == fs = last.preFiles /\ registry = last.preReg

\* the invocation ran no external tool and made no daemon call
NothingRun == last.tools = <<>> /\ last.calls = <<>>

\* no tool was run twice and no daemon call was issued twice
NothingRetried ==
    /\ \A i, j \in DOMAIN last.tools : last.tools[i] = last.tools[j] => i = j
    /\ \A i, j \in DOMAIN last.calls : last.calls[i].op = last.calls[j].op => i = j

\* C12: in the create flow a failed step ends the invocation before any later
\* step runs: the disk is created and the domain defined or started only
\* after the dependency check, the virtualization check, installer-image and
\* driver-image resolution and the daemon connection succeeded; no step is
\* retried.
C12_CreateAbortsInPipelineOrder ==
    last.op = "create"
        => /\ (Ran("qemu-img") \/ HasCall("defineXML") \/ HasCall("create")
                    \/ DiskPath(last.name) \in fs \ last.preFiles)
                => /\ ~ToolMissing
                   /\ ~NoVirtualization
                   /\ ~InstallerImageMissing
                   /\ ~DriverResolutionFails
                   /\ Succeeded("open")
           /\ (ToolMissing \/ NoVirtualization \/ InstallerImageMissing)
                => NothingRun /\ NothingChanged /\ Len(last.out) = 1
           /\ (DriverResolutionFails /\ ~ToolMissing /\ ~NoVirtualization
                    /\ ~InstallerImageMissing)
                => /\ last.tools = <<"urlretrieve">>
                   /\ last.calls = <<>>
                   /\ NothingChanged
           /\ ConnectionFailed
                => /\ CallOps = <<"open">>
                   /\ ~Ran("qemu-img")
                   /\ registry = last.preReg
                   /\ fs \ last.preFiles \subseteq {VirtioCachePath}
           /\ last.raised = "CalledProcessError"
                => /\ CallOps = <<"open">>
                   /\ registry = last.preReg
                   /\ ~Ran("genisoimage")
           /\ NothingRetried
           /\ UnmetPrecondition => last.exit = "1"

C12_Witness ==
    /\ last.op = "create"
    /\ Ran("urlretrieve")
    /\ Ran("qemu-img")
    /\ DiskPath(last.name) \in fs \ last.preFiles
    /\ CallOps = <<"open", "lookupByName", "defineXML", "create">>
    /\ Succeeded("create")

\* the invocation got as far as driver-image resolution
ResolvedDrivers ==
    \/ last.op = "download_virtio_drivers"
    \/ last.op = "create" /\ ~ToolMissing /\ ~NoVirtualization
            /\ ~InstallerImageMissing

\* the driver image in the descriptor this invocation defined
DefinedDriverImage == registry[last.name].xml.cdroms[2]

\* C13: driver-image resolution returns the cached file when it exists, using
\* no system path and fetching nothing; else the system file when one exists,
\* fetching nothing; it fetches from the network only when neither exists.
C13_DriverResolutionOrder ==
    ResolvedDrivers
        => /\ VirtioCachePath \in last.preFiles
                => /\ ~Ran("urlretrieve")
                   /\ Printed("VirtIO drivers already exist")
                   /\ ~Printed("Using system VirtIO drivers")
                   /\ last.op = "download_virtio_drivers"
                        => last.path = VirtioCachePath
                   /\ Succeeded("defineXML")
                        => DefinedDriverImage = VirtioCachePath
           /\ (VirtioCachePath \notin last.preFiles /\ last.host.sysVirtio)
                => /\ ~Ran("urlretrieve")
                   /\ Printed("Using system VirtIO drivers")
                   /\ VirtioCachePath \notin fs
                   /\ last.op = "download_virtio_drivers"
                        => last.path = VirtioSystemPath
                   /\ Succeeded("defineXML")
                        => DefinedDriverImage = VirtioSystemPath
           /\ Ran("urlretrieve")
                <=> (VirtioCachePath \notin last.preFiles /\ ~last.host.sysVirtio)
           /\ (Ran("urlretrieve") /\ last.op = "download_virtio_drivers")
                => last.path = IF last.host.fetchOk THEN VirtioCachePath ELSE NoPath

\* a cached file wins over a system copy
C13_Witness ==
    /\ last.op = "download_virtio_drivers"
    /\ VirtioCachePath \in last.preFiles
    /\ last.host.sysVirtio
    /\ last.path = VirtioCachePath
    /\ last.tools = <<>>

\* the create flow asked for an unattended-install image and the
\* ISO-authoring tool failed or was missing
UnattendedGenerationFailed ==
    /\ last.op \in CreateOps
    /\ Ran("genisoimage")
    /\ last.host.geniso \in {"fails", "missing"}

\* C14: when the ISO-authoring tool fails or is missing, the create flow goes
\* on without the unattended-install image: it still reaches the domain
\* lookup, and a descriptor it defines has no unattended-install device.
C14_UnattendedFailureNotFatal ==
    UnattendedGenerationFailed
        => /\ last.raised = None
           /\ HasCall("lookupByName")
           /\ Printed("Failed to create unattended installation")
           /\ LastPre.state = "UNDEFINED"
                => /\ HasCall("defineXML")
                   /\ Succeeded("defineXML")
                        => /\ HasCall("create")
                           /\ Len(registry[last.name].xml.cdroms) = 2

\* the tool is installed and exits with an error: the flow goes on
C14_ToolFailsWitness ==
    /\ last.op = "create"
    /\ Ran("genisoimage")
    /\ last.host.geniso = "fails"
    /\ CallOps = <<"open", "lookupByName", "defineXML", "create">>
    /\ registry[last.name].state = "RUNNING"
    /\ Len(registry[last.name].xml.cdroms) = 2

\* C15: a create invocation on a host whose only missing command is
\* remote-viewer still defines and starts an undefined domain, prints the
\* installation hint when it tries to launch the viewer, and exits with 0.
C15_MissingViewerNotFatal ==
    (/\ last.op = "create"
     /\ last.host.missing = {"remote-viewer"}
     /\ LastPre.state = "UNDEFINED"
     /\ ~UnmetPrecondition \/ ToolMissing)
        => /\ last.exit = "0"
           /\ CallOps = <<"open", "lookupByName", "defineXML", "create">>
           /\ registry[last.name].state = "RUNNING"
           /\ Ran("remote-viewer") => Printed("remote-viewer not found")

\* create --name test-vm --cwd /tmp/share --iso /tmp/win.iso on a host that
\* passes both checks, with the name undefined and no cached driver image
FreshCreate ==
    /\ last.op = "create"
    /\ last.name = "test-vm"
    /\ last.host.isoArg = "ok"
    /\ ~ToolMissing
    /\ ~NoVirtualization
    /\ VirtioCachePath \notin last.preFiles
    /\ LastPre.state = "UNDEFINED"

\* the network, the daemon and the tools did what they were asked
AllAnswered ==
    /\ last.host.fetchOk
    /\ last.raised = None
    /\ \A i \in DOMAIN last.calls :
            last.calls[i].op \in {"open", "defineXML", "create"} => last.calls[i].ok

\* the domain "test-vm" was defined and started, sharing /tmp/share
DefinedAndStartedSharing ==
    /\ CallOps = <<"open", "lookupByName", "defineXML", "create">>
    /\ registry["test-vm"].state = "RUNNING"
    /\ registry["test-vm"].xml.name = "test-vm"
    /\ registry["test-vm"].xml.share = "/tmp/share"
    /\ last.exit = "0"

\* C16 as stated: with no cached driver image the create of "test-vm"
\* attempts a network fetch, then defines and starts the domain sharing the
\* given directory.
C16_FreshCreateFetchesThenStarts ==
    FreshCreate
        => /\ Ran("urlretrieve")
           /\ AllAnswered => DefinedAndStartedSharing

\* C16 amended: with neither a cached nor a system-installed driver image the
\* create of "test-vm" attempts a network fetch before anything else, then
\* defines and starts the domain sharing the given directory.
C16_FreshCreateWithoutSystemImage ==
    (FreshCreate /\ ~last.host.sysVirtio)
        => /\ Len(last.tools) >= 1
           /\ last.tools[1] = "urlretrieve"
           /\ AllAnswered => DefinedAndStartedSharing

C16_Witness ==
    /\ FreshCreate
    /\ ~last.host.sysVirtio
    /\ last.tools[1] = "urlretrieve"
    /\ VirtioCachePath \in fs
    /\ DefinedAndStartedSharing

\* the domains the daemon knew when the invocation began
KnownBefore == {n \in Names : last.preReg[n].state # "UNDEFINED"}

\* C17: --list issues no define, start, shutdown, destroy or undefine call
\* and changes no domain and no file; connected, it prints each known domain
\* once with Running or Stopped, and for an empty registry just the heading,
\* ending without an exception and with exit status 0.
C17_ListIsReadOnly ==
    last.op = "--list"
        => /\ \A i \in DOMAIN last.calls :
                    last.calls[i].op \in {"open", "listAllDomains"}
           /\ registry = last.preReg
           /\ fs = last.preFiles
           /\ last.tools = <<>>
           /\ last.raised = None
           /\ last.exit = "0"
           /\ Succeeded("open")
                => /\ last.out = <<"Virtual Machines:">>
                   /\ last.listing =
                        {<<n, IF last.preReg[n].state = "RUNNING"
                              THEN "Running" ELSE "Stopped">> : n \in KnownBefore}
                   /\ KnownBefore = {} => last.listing = {}

C17_Witness ==
    /\ last.op = "--list"
    /\ KnownBefore = {}
    /\ CallOps = <<"open", "listAllDomains">>
    /\ last.out = <<"Virtual Machines:">>
    /\ last.listing = {}
    /\ last.exit = "0"

\* no --iso option was given and the directory holds no installer image
InstallerImageNotFound ==
    /\ last.op \in {"create", "download_windows_iso"}
    /\ last.op = "create" => last.host.isoArg = "none"
    /\ ~last.host.isoFound

\* C19: an installer image that is not found is never fetched: resolution
\* returns None, no network request is made, and the create invocation exits
\* with 1 having created no disk, made no daemon call and defined no domain.
C19_InstallerImageNeverFetched ==
    InstallerImageNotFound
        => /\ NothingRun
           /\ NothingChanged
           /\ last.op = "download_windows_iso" => last.path = NoPath
           /\ last.op = "create"
                => /\ last.exit = "1"
                   /\ DiskPath(last.name) \notin fs \ last.preFiles
                   /\ (~ToolMissing /\ ~NoVirtualization)
                        => last.out = <<"Windows 11 ISO not found">>

C19_Witness ==
    /\ last.op = "create"
    /\ last.host.isoArg = "none"
    /\ ~last.host.isoFound
    /\ last.out = <<"Windows 11 ISO not found">>
    /\ last.exit = "1"
    /\ LastPre.state = "UNDEFINED"
    /\ registry[last.name].state = "UNDEFINED"
    /\ fs = {}

\* the daemon calls that address one domain
DomainCalls == {"lookupByName", "defineXML", "create", "shutdown", "destroy", "undefine"}

\* C20: every define, start, shutdown, force-stop and undefine call of an
\* invocation (and every lookup) names the domain the invocation was given,
\* and every other domain keeps its state and its descriptor.
C20_OnlyNamedDomainTouched ==
    /\ \A i \in DOMAIN last.calls :
            last.calls[i].op \in DomainCalls => last.calls[i].name = last.name
    /\ \A n \in Names : n # last.name => registry[n] = last.preReg[n]

\* a connected stop of one running domain beside another running one
C20_Witness ==
    /\ last.op = "stop_vm"
    /\ Succeeded("shutdown")
    /\ last.preReg[last.name].state = "RUNNING"
    /\ registry[last.name].state = "DEFINED_STOPPED"
    /\ \E n \in Names \ {last.name} :
            last.preReg[n].state = "RUNNING" /\ registry[n].state = "RUNNING"

\* driver-image resolution went to the network and the fetch failed
DriverFetchFailed == ResolvedDrivers /\ DriverResolutionFails

\* C21: when the network fetch of the driver image fails, resolution returns
\* None and the create invocation exits with 1 having created no disk, made
\* no daemon call and defined no domain.
C21_FailedFetchAbortsCreate ==
    DriverFetchFailed
        => /\ last.tools = <<"urlretrieve">>
           /\ Printed("Failed to download VirtIO drivers")
           /\ last.calls = <<>>
           /\ registry = last.preReg
           /\ last.op = "download_virtio_drivers" => last.path = NoPath
           /\ last.op = "create"
                => /\ last.exit = "1"
                   /\ last.raised = None
                   /\ DiskPath(last.name) \notin fs \ last.preFiles

C21_Witness ==
    /\ last.op = "create"
    /\ DriverFetchFailed
    /\ last.tools = <<"urlretrieve">>
    /\ last.exit = "1"
    /\ DiskPath(last.name) \notin fs
    /\ registry[last.name].state = "UNDEFINED"

\* the removable-media devices of the descriptor this invocation defined
DefinedCdroms == registry[last.name].xml.cdroms

\* the unattended-install image was asked for and genisoimage wrote it
UnattendedProduced == ~last.flags.no_unattended /\ last.host.geniso = "ok"

UnattendedFiles == {AutounattendXmlPath, AutounattendIsoPath}

\* C22: a descriptor defined by a create has the installer and the driver
\* image as its first two removable-media devices, and the unattended-install
\* image as a third exactly when it was asked for and produced in this run;
\* with --no-unattended no unattended file is written.
C22_UnattendedDeviceIffProduced ==
    last.op \in CreateOps
        => /\ Succeeded("defineXML")
                => /\ Len(DefinedCdroms) \in {2, 3}
                   /\ DefinedCdroms[1] \in {ArgIsoPath, FoundIsoPath}
                   /\ DefinedCdroms[2] \in {VirtioCachePath, VirtioSystemPath}
                   /\ Len(DefinedCdroms) = 3 <=> UnattendedProduced
                   /\ Len(DefinedCdroms) = 3
                        => /\ DefinedCdroms[3] = AutounattendIsoPath
                           /\ AutounattendIsoPath \in fs
                           /\ Ran("genisoimage")
           /\ last.flags.no_unattended
                => /\ ~Ran("write autounattend.xml")
                   /\ ~Ran("genisoimage")
                   /\ fs \cap UnattendedFiles = last.preFiles \cap UnattendedFiles

\* an earlier run left autounattend.iso behind; this one, run with
\* --no-unattended, defines a descriptor without it
C22_Witness ==
    /\ last.op = "create"
    /\ last.flags.no_unattended
    /\ AutounattendIsoPath \in last.preFiles
    /\ Succeeded("defineXML")
    /\ DefinedCdroms = <<ArgIsoPath, VirtioCachePath>>

C22_ProducedWitness ==
    /\ last.op = "create"
    /\ UnattendedProduced
    /\ Succeeded("defineXML")
    /\ DefinedCdroms = <<ArgIsoPath, VirtioCachePath, AutounattendIsoPath>>

\* qemu-img was run to create the disk and exited non-zero
DiskCreationFailed ==
    /\ last.op \in CreateOps \cup {"create_vm_disk"}
    /\ Ran("qemu-img")
    /\ ~last.host.qemuOk

\* C23: a non-zero exit of qemu-img is fatal: CalledProcessError leaves the
\* invocation, which neither writes the unattended files nor looks up,
\* defines or starts a domain afterwards, and a command-line create exits 1.
C23_DiskCreationFailureFatal ==
    DiskCreationFailed
        => /\ last.raised = "CalledProcessError"
           /\ last.ret = None
           /\ registry = last.preReg
           /\ ~Ran("write autounattend.xml")
           /\ ~Ran("genisoimage")
           /\ ~HasCall("lookupByName")
           /\ ~HasCall("defineXML")
           /\ ~HasCall("create")
           /\ last.op \in CreateOps => CallOps = <<"open">>
           /\ last.op = "create" => last.exit = "1"

C23_Witness ==
    /\ last.op = "create"
    /\ DiskCreationFailed
    /\ ~last.flags.no_unattended
    /\ last.raised = "CalledProcessError"
    /\ LastPre.state = "UNDEFINED"
    /\ registry[last.name].state = "UNDEFINED"
    /\ last.exit = "1"

\* the create flow got its domain handle: the domain was running already or
\* this invocation started it
DomainStarted ==
    /\ last.op = "create"
    /\ Reached
    /\ LastPre.state = "RUNNING" \/ Succeeded("create")

\* C24: once the domain is started a create invocation exits 0 whatever
\* get_vm_info finds: no exception leaves it when the description or the
\* port is unavailable, and remote-viewer is run exactly when --no-client is
\* absent and a port was obtained.
C24_ConnectionInfoNeverFatal ==
    DomainStarted
        => /\ last.exit = "0"
           /\ last.raised = None
           /\ last.ret = last.name
           /\ registry[last.name].state = "RUNNING"
           /\ Ran("remote-viewer")
                <=> (~last.flags.no_client /\ last.host.info = "port")
           /\ last.host.info = "fail"
                => /\ Printed("Failed to get VM info")
                   /\ ~Printed("VM CONNECTION INFORMATION")
           /\ last.host.info # "fail" => Printed("VM CONNECTION INFORMATION")
           /\ (Ran("remote-viewer") /\ ~last.host.viewerOk)
                => Printed("Failed to launch SPICE client")

\* the description could not be read and a viewer was wanted
C24_Witness ==
    /\ DomainStarted
    /\ Succeeded("create")
    /\ ~last.flags.no_client
    /\ last.host.info = "fail"
    /\ ~Ran("remote-viewer")
    /\ last.exit = "0"

C24_NoPortWitness ==
    /\ DomainStarted
    /\ ~last.flags.no_client
    /\ last.host.info = "noport"
    /\ ~Ran("remote-viewer")
    /\ last.exit = "0"

DomainStates == {"UNDEFINED", "DEFINED_STOPPED", "RUNNING"}

\* the calls of the last invocation issued before its undefine call
BeforeUndefine(i) == {j \in DOMAIN last.calls : j < i}

\* C25: every domain is in exactly one of UNDEFINED, DEFINED_STOPPED and
\* RUNNING (with a descriptor unless UNDEFINED), and undefine is never issued
\* on an active domain: when the domain was RUNNING a successful force-stop
\* of it comes first, and a domain that was RUNNING is never UNDEFINED after
\* an invocation that did not force-stop it.
C25_NoUndefineOfActiveDomain ==
    /\ \A n \in Names :
            /\ registry[n].state \in DomainStates
            /\ registry[n].state = "UNDEFINED" <=> registry[n].xml = NoXml
    /\ \A i \in CallsOf("undefine") :
            /\ last.op \in DestroyOps
            /\ \E j \in BeforeUndefine(i) :
                    /\ last.calls[j].op = "lookupByName"
                    /\ last.calls[j].ok
            /\ LastPre.state = "RUNNING"
                => \E j \in BeforeUndefine(i) :
                        /\ last.calls[j].op = "destroy"
                        /\ last.calls[j].name = last.name
                        /\ last.calls[j].ok
    /\ \A n \in Names :
            (last.preReg[n].state = "RUNNING" /\ registry[n].state = "UNDEFINED")
                => /\ n = last.name
                   /\ CallOps = <<"lookupByName", "destroy", "undefine">>

C25_Witness ==
    /\ last.op = "destroy_vm"
    /\ LastPre.state = "RUNNING"
    /\ CallOps = <<"lookupByName", "destroy", "undefine">>
    /\ Succeeded("undefine")
    /\ registry[last.name] = Undefined

\* the invocation defined a new domain and its start call failed
DefinedButNotStarted ==
    /\ last.op \in CreateOps
    /\ LastPre.state = "UNDEFINED"
    /\ Succeeded("defineXML")
    /\ HasCall("create")
    /\ ~Succeeded("create")

\* C26, first half: no rollback after a failed start of a newly defined
\* domain: no undefine is issued, the domain stays DEFINED_STOPPED with the
\* new descriptor, None is returned and a command-line create exits 1.
C26_NoRollbackAfterFailedStart ==
    DefinedButNotStarted
        => /\ CallOps = <<"open", "lookupByName", "defineXML", "create">>
           /\ registry[last.name].state = "DEFINED_STOPPED"
           /\ registry[last.name].xml.name = last.name
           /\ last.ret = None
           /\ Printed("Failed to create VM")
           /\ last.op = "create" => last.exit = "1"

C26_NoRollbackWitness ==
    /\ last.op = "create"
    /\ DefinedButNotStarted
    /\ registry[last.name].state = "DEFINED_STOPPED"
    /\ last.exit = "1"

\* C26: after a define that succeeded and a start that failed the domain
\* remains DEFINED_STOPPED, None is returned and the invocation exits 1; a
\* later create of the same name finds the domain and only starts it: its
\* daemon calls are the connection, the lookup and one start.
C26_NoRollbackThenOnlyStart ==
    /\ C26_NoRollbackAfterFailedStart
    /\ (last.op \in CreateOps /\ LastPre.state = "DEFINED_STOPPED" /\ Reached)
            => CallOps = <<"open", "lookupByName", "create">>

\* some daemon call of the last invocation failed
SomeCallFailed == \E i \in DOMAIN last.calls : ~last.calls[i].ok

\* C27: destroy_vm shows the disk-removal prompt only after the lookup, the
\* force-stop of an active domain and the undefine call have all succeeded;
\* when the domain does not exist or a daemon call fails there is no prompt,
\* nothing is read from standard input and no file is touched.
C27_PromptOnlyAfterUndefine ==
    last.op \in DestroyOps
        => /\ Printed("Remove disk file?")
                => /\ Succeeded("lookupByName")
                   /\ LastPre.state = "RUNNING" => Succeeded("destroy")
                   /\ Succeeded("undefine")
                   /\ ~SomeCallFailed
                   /\ registry[last.name] = Undefined
                   /\ last.out[1] = "VM destroyed"
                   /\ DiskPath(last.name) \in last.preFiles
           /\ (LastPre.state = "UNDEFINED" \/ SomeCallFailed \/ last.calls = <<>>)
                => /\ ~Printed("Remove disk file?")
                   /\ last.response = None
                   /\ fs = last.preFiles
                   /\ last.raised = None

\* the undefine call fails while the disk file exists: no prompt
C27_Witness ==
    /\ last.op = "destroy_vm"
    /\ CallOps = <<"lookupByName", "destroy", "undefine">>
    /\ ~Succeeded("undefine")
    /\ DiskPath(last.name) \in last.preFiles
    /\ DiskPath(last.name) \in fs
    /\ ~Printed("Remove disk file?")

\* the create flow connected to the daemon
Connected == last.op \in CreateOps /\ Succeeded("open")

\* the disk step left a disk image behind
DiskReady == DiskPath(last.name) \in last.preFiles \/ last.host.qemuOk

\* C28: create_and_start_vm provisions files before it looks the domain up:
\* once connected it runs qemu-img exactly when the disk image is absent,
\* and when an unattended install is requested it rewrites autounattend.xml
\* and runs genisoimage, whatever the state of the named domain; for a
\* RUNNING domain the registry is unchanged all the same.
C28_ProvisioningBeforeLookup ==
    Connected
        => /\ Ran("qemu-img") <=> DiskPath(last.name) \notin last.preFiles
           /\ (Ran("qemu-img") /\ last.host.qemuOk) => DiskPath(last.name) \in fs
           /\ (DiskReady /\ ~last.flags.no_unattended)
                => /\ Ran("write autounattend.xml")
                   /\ Ran("genisoimage")
                   /\ AutounattendXmlPath \in fs
                   /\ last.host.geniso = "ok" => AutounattendIsoPath \in fs
           /\ HasCall("lookupByName")
                => /\ DiskReady
                   /\ last.host.geniso # "missing" \/ last.flags.no_unattended
           /\ LastPre.state = "RUNNING" => registry = last.preReg

\* the domain is RUNNING, the unattended files are there: they are written
\* again and the daemon-side result is a no-op
C28_Witness ==
    /\ Connected
    /\ LastPre.state = "RUNNING"
    /\ UnattendedFiles \subseteq last.preFiles
    /\ last.tools = <<"write autounattend.xml", "genisoimage">>
    /\ CallOps = <<"open", "lookupByName">>
    /\ registry = last.preReg

---------------------------------------------------------------------------
(* Claims about the release scripts *)

\* the positions in the publisher's run at which the command was run
PubRuns(cmd) == {i \in DOMAIN pub.cmds : pub.cmds[i].cmd = cmd}

\* the steps that must succeed before the push
BeforePush == <<"check_release_files", "git init", "git add", "git commit">>

\* every step except the statistics chart, whose failure is only a warning
FatalSteps ==
    {"FullCrisis3.sln", "uv run build.py", "check_release_files", "git init",
     "copy", "preview", "git add", "git commit", "git remote get-url",
     "git remote add", "git push -f"}

C29_FailedCommitWitness ==
    /\ pub.cmds # <<>>
    /\ pub.cmds[Len(pub.cmds)] = Cmd("git commit", FALSE)
    /\ pub.exit = "1"
    /\ PubRuns("git push -f") = {}

\* the entries of the downloader's log with the given class
DlClassed(class) == {k \in DOMAIN dl.log : dl.log[k].class = class}

====
